---- MODULE Spec2Model ----
(***************************************************************************)
(* Authcord: a redirect gateway.  src/app.js holds two variants of the     *)
(* server: the richer one (lines 1-453: member flag, linkbust, POST /l,    *)
(* saved_ips, un-awaited audit inserts) and the simplified one (lines      *)
(* 455-714).  The variable variant says which of the two is running.     *)
(*                                                                         *)
(* Every request is a process slot (req[p]); one action is one stretch of  *)
(* handler code between two awaited database calls, so the interleavings   *)
(* of the model are the interleavings of the event loop.                   *)
(*                                                                         *)
(* Encoding of values.  0 is every falsy value of the source (undefined,   *)
(* null, the empty string); user ids are 1..2, session ids (uuids, ranked  *)
(* by MySQL's utf8mb4_bin order) are 11, 12, ..., IP addresses are 101,     *)
(* 102; the three ranges are disjoint.  Strings that are edited            *)
(* character by character (destinations) are sequences of characters.      *)
(* user_agent and saved_sessions.ip_address are carried by the source but  *)
(* read by no branch; the rows of the model leave them out.                *)
(***************************************************************************)
EXTENDS Integers, Sequences, FiniteSets, TLC

\* ------------------------------------------------------------- bounds
NumSessionIds == 8          \* size of the pool uuidv4() draws from
MaxPlaceholders == 3        \* occurrences of %RAN% in a destination
MaxRequests == 2            \* requests started in one behaviour

\* ------------------------------------------------- program constants
MaxSessions == 5            \* src/app.js:406  currentSessions.length === 5

Procs == {1, 2}
Variants == {"rich", "simple"}

\* users table (src/authcord.sql:131-137); no endpoint writes it.
\* user 1 is a member, user 2 is not.
Users ==
  { [id |-> 1, email |-> "u1@x", member |-> TRUE,  password |-> "hash:good1"],
    [id |-> 2, email |-> "u2@x", member |-> FALSE, password |-> "hash:good2"] }

UserIds == {u.id : u \in Users}
SessionIds == 11 .. (10 + NumSessionIds)
\* a cookie value that uuidv4() never issued (a guessed / spoofed id)
SpoofedId == 10 + NumSessionIds + 1
IPs == {101, 102}

VARIABLES
  variant,          \* which server of src/app.js runs
  sessions,         \* table sessions: set of [id, user_id, created_at]
  saved_sessions,   \* table saved_sessions: set of [id, user_id]
  ips,              \* table ips: set of [id, user_id, ip_address]
  saved_ips,        \* table saved_ips: sequence of [user_id, ip_address]
  shortlinks,       \* table shortlinks: sequence of rows, id = position
  outbound,         \* table outbound: sequence of rows
  dynamic_urls,     \* table dynamic_urls: sequence of rows
  pending,          \* un-awaited inserts that the pool has not run yet
  req,              \* req[p]: the request handled in slot p
  clock,            \* insertion counter: created_at / AUTO_INCREMENT source
  started           \* number of requests started so far

vars == <<variant, sessions, saved_sessions, ips, saved_ips, shortlinks,
          outbound, dynamic_urls, pending, req, clock, started>>

tables == <<sessions, saved_sessions, ips, saved_ips, shortlinks,
            outbound, dynamic_urls>>

\* ------------------------------------------------------------ helpers
Max(S) == CHOOSE x \in S : \A y \in S : y <= x
Min(S) == CHOOSE x \in S : \A y \in S : x <= y

\* The response object res: nothing sent while status = 0.
NoResponse ==
  [status |-> 0, view |-> "", location |-> <<>>,
   set_cookie |-> 0, clear_cookie |-> FALSE]

\* A free slot.  The fields are the inputs of a request (session_user is
\* req.session.user's id, cookie is req.cookies.sessionId, ip is req.ip,
\* body fields) followed by the handler's locals, named as in the source.
Idle ==
  [kind |-> "none", pc |-> "idle", n |-> 0,
   session_user |-> 0, cookie |-> 0, ip |-> 0, code |-> <<>>,
   body |-> <<>>,
   email |-> "", password |-> "",
   user |-> 0, currentSession |-> {}, validSession |-> FALSE, sessionId |-> 0,
   currentSessions |-> <<>>,
   session |-> {}, ipSession |-> {}, lookups |-> <<>>,
   method_name |-> "", method_value |-> 0, user_id |-> 0,
   shortlink |-> <<>>, applied |-> <<>>, data |-> <<>>,
   res |-> NoResponse]

\* A request is taken by the first slot that handles none.
Free(p) ==
  /\ req[p].pc \in {"idle", "done"}
  /\ started < MaxRequests
  /\ \A q \in Procs : req[q].pc \in {"idle", "done"} => p <= q


\* knex(...).first() of a query without ORDER BY: MySQL may return any of
\* the matching rows.  The result is a set of at most one row.
FirstOf(rows) == IF rows = {} THEN {{}} ELSE {{r} : r \in rows}

UserById(id) == CHOOSE u \in Users : u.id = id

\* ------------------------------------------------------- POST /login
\* bcrypt.compare(password, user.password): the stored hash of a user is
\* the hash of exactly one password.
BcryptHash(password) == "hash:" \o password
BcryptCompare(password, hash) == BcryptHash(password) = hash

\* The request bodies tried: one per answer of the credential check.
Credentials ==
  { <<"", "good1">>, <<"u1@x", "">>, <<"nobody@x", "good1">>,
    <<"u1@x", "good2">>, <<"u1@x", "good1">>, <<"u2@x", "good2">> }

\* The values a client can send as sessionId cookie: none, an id it was
\* once given (still active or evicted since), or one it made up.
CookieValues == {0, SpoofedId} \cup {r.id : r \in saved_sessions}

\* const user = await knex("users").where("email", email).first()
UserByEmail(email) == {u \in Users : u.email = email}

\* The 400 answers of POST /login: "" when the credentials are accepted.
LoginError(email, password) ==
  IF email = "" THEN "Missing email address."
  ELSE IF password = "" THEN "Missing password."
  ELSE IF UserByEmail(email) = {} THEN "User does not exist."
  ELSE IF ~BcryptCompare(password,
                         (CHOOSE u \in UserByEmail(email) : TRUE).password)
       THEN "Invalid password."
  ELSE ""

\* validSession after the lookup of the cookie's row.  The richer variant
\* compares the row's user_id with the user logging in, the simplified
\* one accepts any row.
ValidSession(v, rows, userId) ==
  IF v = "rich" THEN \E r \in rows : r.user_id = userId
  ELSE rows # {}

\* A login that creates a session whatever cookie it is given.
CreatesSessionAlways(cookie, validSession) == TRUE

\* if (!req.cookies.sessionId && !validSession)
CreatesSession(cookie, validSession) == cookie = 0 /\ ~validSession

\* The column the eviction query orders by, orderBy("id", "ASC").  In the
\* schema of src/authcord.sql sessions.id is the uuid itself.
RichSessionsIdColumn(row) == row.id
\* The simplified variant addresses the uuid as session_id, next to a
\* separate id column: the table's insertion-ordered key.
SimpleSessionsIdColumn(row) == row.created_at

SessionsIdColumn(v, row) ==
  IF v = "rich" THEN RichSessionsIdColumn(row) ELSE SimpleSessionsIdColumn(row)

\* knex("sessions").where("user_id", user.id).orderBy("id", "ASC")
RECURSIVE OrderByIdAsc(_, _)
OrderByIdAsc(v, rows) ==
  IF rows = {} THEN <<>>
  ELSE LET first == CHOOSE r \in rows :
                      \A o \in rows : SessionsIdColumn(v, r) <= SessionsIdColumn(v, o)
       IN <<first>> \o OrderByIdAsc(v, rows \ {first})

CurrentSessions(v, userId) ==
  OrderByIdAsc(v, {r \in sessions : r.user_id = userId})

\* currentSessions.length === 5
EvictsOldest(currentSessions) == Len(currentSessions) = MaxSessions

\* uuidv4(): an id no session was ever given and no login in flight holds.
UuidV4 ==
  SessionIds \ ({r.id : r \in saved_sessions} \cup {r.id : r \in sessions}
                \cup {req[q].sessionId : q \in Procs})

\* Lines 357-402 (637-677): the request arrives, the credentials are
\* checked against the users table (which nothing writes), and the handler
\* stops at the first query on a table that changes.
LoginStart(p) ==
  /\ Free(p)
  /\ \E cred \in Credentials, cookie \in CookieValues :
       LET email == cred[1]
           password == cred[2]
           err == LoginError(email, password)
           r0 == [Idle EXCEPT !.kind = "login", !.n = started + 1,
                              !.email = email, !.password = password,
                              !.cookie = cookie]
       IN IF err # ""
          THEN req' = [req EXCEPT ![p] =
                 [r0 EXCEPT !.pc = "done",
                            !.res = [NoResponse EXCEPT !.status = 400,
                                                       !.view = "login.handlebars"]]]
          ELSE LET u == CHOOSE x \in UserByEmail(email) : TRUE
               IN req' = [req EXCEPT ![p] =
                    [r0 EXCEPT !.user = u.id,
                               !.pc = IF cookie # 0 THEN "login_cookie"
                                      ELSE IF CreatesSession(cookie, FALSE)
                                           THEN "login_list"
                                           ELSE "login_refresh"]]
  /\ started' = started + 1
  /\ UNCHANGED <<variant, tables, pending, clock>>

\* Lines 389-398 (669-674): the row of the presented cookie.
LoginCheckCookie(p) ==
  /\ req[p].pc = "login_cookie"
  /\ LET rows == {r \in sessions : r.id = req[p].cookie}
         valid == ValidSession(variant, rows, req[p].user)
     IN req' = [req EXCEPT ![p].currentSession = rows,
                           ![p].validSession = valid,
                           ![p].pc = IF CreatesSession(req[p].cookie, valid)
                                     THEN "login_list" ELSE "login_refresh"]
  /\ UNCHANGED <<variant, tables, pending, clock, started>>

\* Lines 403-404 (678-679): the new id and the user's rows, ordered.
LoginList(p) ==
  /\ req[p].pc = "login_list"
  /\ \E id \in UuidV4 :
       LET cs == CurrentSessions(variant, req[p].user)
       IN req' = [req EXCEPT ![p].sessionId = id,
                             ![p].currentSessions = cs,
                             ![p].pc = IF EvictsOldest(cs) THEN "login_evict"
                                       ELSE "login_insert"]
  /\ UNCHANGED <<variant, tables, pending, clock, started>>

\* Lines 406-410 (681-685): delete currentSessions[0].
LoginEvict(p) ==
  /\ req[p].pc = "login_evict"
  /\ LET lastSession == req[p].currentSessions[1]
     IN sessions' = {r \in sessions :
                       ~(r.user_id = req[p].user /\ r.id = lastSession.id)}
  /\ req' = [req EXCEPT ![p].pc = "login_insert"]
  /\ UNCHANGED <<variant, saved_sessions, ips, saved_ips, shortlinks, outbound,
                 dynamic_urls, pending, clock, started>>

\* Lines 412-416 (687-691): insert the session row.
LoginInsert(p) ==
  /\ req[p].pc = "login_insert"
  /\ sessions' = sessions \cup
        {[id |-> req[p].sessionId, user_id |-> req[p].user, created_at |-> clock]}
  /\ clock' = clock + 1
  /\ req' = [req EXCEPT ![p].pc = "login_saved"]
  /\ UNCHANGED <<variant, saved_sessions, ips, saved_ips, shortlinks, outbound,
                 dynamic_urls, pending, started>>

\* A login that sets the cookie without mirroring the row.
LoginSavedWithoutMirror(p) ==
  /\ req[p].pc = "login_saved"
  /\ req' = [req EXCEPT ![p].res.set_cookie = req[p].sessionId,
                        ![p].pc = "login_refresh"]
  /\ UNCHANGED <<variant, tables, pending, clock, started>>

\* Lines 419-426 (694-701): mirror the row, then res.cookie("sessionId", id).
LoginSaved(p) ==
  /\ req[p].pc = "login_saved"
  /\ saved_sessions' = saved_sessions \cup
        {[id |-> req[p].sessionId, user_id |-> req[p].user]}
  /\ req' = [req EXCEPT ![p].res.set_cookie = req[p].sessionId,
                        ![p].pc = "login_refresh"]
  /\ UNCHANGED <<variant, sessions, ips, saved_ips, shortlinks, outbound,
                 dynamic_urls, pending, clock, started>>

\* Lines 430-434 (705-709): req.session.user = user, its ips and sessions
\* are re-read (into the browser session only), then the redirect to "/".
LoginRefresh(p) ==
  /\ req[p].pc = "login_refresh"
  /\ req' = [req EXCEPT ![p].session_user = req[p].user,
                        ![p].res.status = 302,
                        ![p].res.location = <<"/">>,
                        ![p].pc = "done"]
  /\ UNCHANGED <<variant, tables, pending, clock, started>>

Login(p) ==
  \/ LoginStart(p)
  \/ LoginCheckCookie(p)
  \/ LoginList(p)
  \/ LoginEvict(p)
  \/ LoginInsert(p)
  \/ LoginSaved(p)
  \/ LoginRefresh(p)

\* -------------------------------------------- GET /l/:code, trust

UserTierMemberOnly(v, sessionUser) ==
  sessionUser # 0 /\ UserById(sessionUser).member

\* Tier 1, lines 77-84 (526-530): the browser session's user object.  The
\* richer variant goes on to next() only for a member.
UserTier(v, sessionUser) ==
  IF v = "rich" THEN sessionUser # 0 /\ UserById(sessionUser).member
  ELSE sessionUser # 0


\* A lookup of the cookie in the archive of every session ever created.
SessionLookupInSaved(cookie) ==
  {[id |-> u.id, member |-> u.member, session_id |-> r.id] :
     <<u, r>> \in {x \in Users \X saved_sessions :
                     x[2].user_id = x[1].id /\ x[2].id = cookie}}

\* users INNER JOIN sessions WHERE sessions.id = cookie (lines 88-92); the
\* simplified variant reads the sessions table alone (line 534).  A row of
\* the result holds users.id, users.member and the session id.
SessionLookup(cookie) ==
  {[id |-> u.id, member |-> u.member, session_id |-> r.id] :
     <<u, r>> \in {x \in Users \X sessions :
                     x[2].user_id = x[1].id /\ x[2].id = cookie}}

\* users INNER JOIN ips WHERE ips.ip_address = ip (lines 107-111, 545).
IpLookup(ip) ==
  {[id |-> u.id, member |-> u.member, ip_address |-> r.ip_address, row |-> r.id] :
     <<u, r>> \in {x \in Users \X ips :
                     x[2].user_id = x[1].id /\ x[2].ip_address = ip}}

\* Tier 2, line 94 (535): if (session && session.member) / if (hasSession)
SessionTier(v, session) ==
  IF v = "rich" THEN \E r \in session : r.member
  ELSE session # {}

ClearsCookieNever(v, session) == FALSE

ClearsCookieWheneverTierFails(v, session) == TRUE

\* Lines 99-102 (539-541): else if (!session) res.clearCookie("sessionId")
ClearsCookie(v, session) == session = {}

IpTierAnyGrant(v, ipSession) == ipSession # {}

\* Tier 3, line 113 (546): if (ipSession && ipSession.member) / if (ipIsAuthed)
IpTier(v, ipSession) ==
  IF v = "rich" THEN \E r \in ipSession : r.member
  ELSE ipSession # {}

\* A row that names the first tier the evaluation tried.
OutboundRowOfFirstTierTried(r) ==
  [ip_address |-> r.ip, code |-> r.code,
   auth_method |-> IF r.session_user # 0 THEN "USER"
                   ELSE IF r.cookie # 0 THEN "SESSION" ELSE "IP",
   auth_value |-> IF r.session_user # 0 THEN r.session_user
                  ELSE IF r.cookie # 0 THEN r.cookie ELSE r.ip]

\* The row the second handler writes into outbound (lines 126-133, 558-564).
OutboundRow(r) ==
  [ip_address |-> r.ip, code |-> r.code,
   auth_method |-> r.method_name, auth_value |-> r.method_value]

\* return next(): the second handler starts in the same turn of the event
\* loop.  The richer variant sends the outbound insert without awaiting it
\* and goes on to the shortlink query; the simplified one awaits the insert.
Authorized(p, r) ==
  IF variant = "rich"
  THEN /\ req' = [req EXCEPT ![p] = [r EXCEPT !.pc = "get_shortlink"]]
       /\ pending' = pending \cup
            {[n |-> r.n, table |-> "outbound", row |-> OutboundRow(r)]}
  ELSE /\ req' = [req EXCEPT ![p] = [r EXCEPT !.pc = "get_outbound"]]
       /\ pending' = pending

\* Lines 71-87 (524-533): the request arrives; tier 1 needs no query.
GetStart(p, requests) ==
  /\ Free(p)
  /\ \E request \in requests :
       LET sessionUser == request.session_user
           cookie == request.cookie
           ip == request.ip
           code == request.code
           r0 == [Idle EXCEPT !.kind = "get_l", !.n = started + 1,
                              !.session_user = sessionUser, !.cookie = cookie,
                              !.ip = ip, !.code = code]
           r1 == IF sessionUser # 0
                 THEN [r0 EXCEPT !.method_name = "USER",
                                 !.method_value = sessionUser,
                                 !.user_id = IF variant = "rich" THEN sessionUser ELSE 0]
                 ELSE r0
       IN IF UserTier(variant, sessionUser)
          THEN Authorized(p, r1)
          ELSE /\ req' = [req EXCEPT ![p] =
                      [r1 EXCEPT !.pc = IF cookie # 0 THEN "get_cookie" ELSE "get_ip"]]
               /\ pending' = pending
  /\ started' = started + 1
  /\ UNCHANGED <<variant, tables, clock>>

\* Lines 87-103 (533-542): the row of the sessionId cookie.
GetCookie(p) ==
  /\ req[p].pc = "get_cookie"
  /\ LET session == SessionLookup(req[p].cookie)
         r1 == [req[p] EXCEPT !.session = session,
                              !.lookups = Append(req[p].lookups, "SESSION")]
     IN IF SessionTier(variant, session)
        THEN Authorized(p, [r1 EXCEPT
               !.method_name = "SESSION",
               !.method_value = req[p].cookie,
               !.user_id = IF variant = "rich"
                           THEN (CHOOSE x \in session : TRUE).id ELSE r1.user_id])
        ELSE /\ req' = [req EXCEPT ![p] =
                    [r1 EXCEPT !.res.clear_cookie =
                                  (ClearsCookie(variant, session) \/ r1.res.clear_cookie),
                               !.pc = "get_ip"]]
             /\ pending' = pending
  /\ UNCHANGED <<variant, tables, clock, started>>

\* Lines 105-121 (544-553): the grant of the requester's address, or 401.
GetIp(p) ==
  /\ req[p].pc = "get_ip"
  /\ \E ipSession \in FirstOf(IpLookup(req[p].ip)) :
       LET r1 == [req[p] EXCEPT !.ipSession = ipSession,
                                !.lookups = Append(req[p].lookups, "IP")]
       IN IF IpTier(variant, ipSession)
          THEN Authorized(p, [r1 EXCEPT
                 !.method_name = "IP",
                 !.method_value = req[p].ip,
                 !.user_id = IF variant = "rich"
                             THEN (CHOOSE x \in ipSession : TRUE).id ELSE r1.user_id])
          ELSE /\ req' = [req EXCEPT ![p] =
                      [r1 EXCEPT !.res.status = 401,
                                 !.res.view = "unauthorized.handlebars",
                                 !.pc = "done"]]
               /\ pending' = pending
  /\ UNCHANGED <<variant, tables, clock, started>>


\* An audit step that also archives the requester's address.
GetOutboundSavingIp(p) ==
  /\ req[p].pc = "get_outbound"
  /\ outbound' = Append(outbound, OutboundRow(req[p]))
  /\ saved_ips' = Append(saved_ips, [user_id |-> req[p].user_id,
                                     ip_address |-> req[p].ip])
  /\ req' = [req EXCEPT ![p].pc = "get_shortlink"]
  /\ UNCHANGED <<variant, sessions, saved_sessions, ips, shortlinks,
                 dynamic_urls, pending, clock, started>>

\* Lines 558-564, simplified variant: await knex("outbound").insert(...)
GetOutbound(p) ==
  /\ req[p].pc = "get_outbound"
  /\ outbound' = Append(outbound, OutboundRow(req[p]))
  /\ req' = [req EXCEPT ![p].pc = "get_shortlink"]
  /\ UNCHANGED <<variant, sessions, saved_sessions, ips, saved_ips, shortlinks,
                 dynamic_urls, pending, clock, started>>

\* An insert that was sent without await is run by the pool.
PendingRun ==
  \E w \in pending :
    /\ pending' = pending \ {w}
    /\ outbound' = IF w.table = "outbound" THEN Append(outbound, w.row) ELSE outbound
    /\ dynamic_urls' = IF w.table = "dynamic_urls"
                       THEN Append(dynamic_urls, w.row) ELSE dynamic_urls
    /\ shortlinks' = IF w.table = "shortlinks"
                     THEN Append(shortlinks, [w.row EXCEPT !.id = Len(shortlinks) + 1,
                                                           !.request = w.n])
                     ELSE shortlinks
    /\ UNCHANGED <<variant, sessions, saved_sessions, ips, saved_ips, req,
                   clock, started>>

\* ------------------------------------------------------------ strings
\* JavaScript strings that the code edits are sequences of characters.
LowerLetters ==
  <<"a","b","c","d","e","f","g","h","i","j","k","l","m",
    "n","o","p","q","r","s","t","u","v","w","x","y","z">>
UpperLetters ==
  <<"A","B","C","D","E","F","G","H","I","J","K","L","M",
    "N","O","P","Q","R","S","T","U","V","W","X","Y","Z">>

\* String.prototype.toUpperCase / toLowerCase, one character
CharToUpperCase(c) ==
  IF \E i \in 1..26 : LowerLetters[i] = c
  THEN UpperLetters[CHOOSE i \in 1..26 : LowerLetters[i] = c] ELSE c
CharToLowerCase(c) ==
  IF \E i \in 1..26 : UpperLetters[i] = c
  THEN LowerLetters[CHOOSE i \in 1..26 : UpperLetters[i] = c] ELSE c
ToUpperCase(str) == [i \in 1..Len(str) |-> CharToUpperCase(str[i])]

\* String.prototype.indexOf(t, from), 1-based; 0 when t does not occur.
IndexOf(str, t, from) ==
  LET hits == {i \in from..(Len(str) - Len(t) + 1) :
                 SubSeq(str, i, i + Len(t) - 1) = t}
  IN IF hits = {} THEN 0 ELSE Min(hits)

\* str.split(t).length: the pieces between the occurrences of t, scanned
\* from the left without overlap.
RECURSIVE SplitLength(_, _, _)
SplitLength(str, t, from) ==
  LET i == IndexOf(str, t, from)
  IN IF i = 0 THEN 1 ELSE 1 + SplitLength(str, t, i + Len(t))

\* str.split(t): the pieces themselves.
RECURSIVE Split(_, _, _)
Split(str, t, from) ==
  LET i == IndexOf(str, t, from)
  IN IF i = 0 THEN <<SubSeq(str, from, Len(str))>>
     ELSE <<SubSeq(str, from, i - 1)>> \o Split(str, t, i + Len(t))

\* pieces.join(t)
RECURSIVE Join(_, _)
Join(pieces, t) ==
  IF pieces = <<>> THEN <<>>
  ELSE IF Len(pieces) = 1 THEN pieces[1]
  ELSE pieces[1] \o t \o Join(Tail(pieces), t)

\* str.replace(t, by) with a string pattern: the first occurrence only.
ReplaceFirst(str, t, by) ==
  LET i == IndexOf(str, t, 1)
  IN IF i = 0 THEN str
     ELSE SubSeq(str, 1, i - 1) \o by \o SubSeq(str, i + Len(t), Len(str))

\* ------------------------------------------------------------ linkbust
RANDOM == <<"R","A","N","D","O","M">>
CACHEBUST == <<"C","A","C","H","E","B","U","S","T">>
CAPITALS == <<"C","A","P","I","T","A","L","S">>
Placeholder == <<"%","R","A","N","%">>
Bar == <<"|">>

\* rs(5), lines 441-453: five characters of [A-Za-z0-9].  Two of its
\* 62^5 results stand for all of them.
RsValues == { <<"0","1","2","3","k">>, <<"4","5","6","7","8">> }

\* case "RANDOM", lines 165-172.  The loop bound is re-evaluated on the
\* string as it is after the replacements made so far.
RECURSIVE RandomLoop(_, _)
RandomLoop(destination, i) ==
  IF i < SplitLength(destination, Placeholder, 1)
  THEN UNION {RandomLoop(ReplaceFirst(destination, Placeholder, ran), i + 1)
                : ran \in RsValues}
  ELSE {destination}

RandomTechnique(destination) == RandomLoop(destination, 0)

\* new URL(destination), line 159, throws a TypeError unless the string is
\* an absolute URL: a scheme (a letter, then letters or digits), then ":".
\* The destinations of the model are in the form url.href gives back
\* (lower-case scheme, no fragment, query absent or already serialized).
IsSchemeChar(c) ==
  \/ \E i \in 1..26 : LowerLetters[i] = c \/ UpperLetters[i] = c
  \/ c \in {"0","1","2","3","4","5","6","7","8","9","+","-","."}
IsLetter(c) == \E i \in 1..26 : LowerLetters[i] = c \/ UpperLetters[i] = c

IsURL(str) ==
  LET colon == IndexOf(str, <<":">>, 1)
  IN /\ colon > 1
     /\ IsLetter(str[1])
     /\ \A i \in 1..(colon - 1) : IsSchemeChar(str[i])

\* url.searchParams.append(ranKey, ranVal); url.href, lines 160-163
Href(destination, ranKey, ranVal) ==
  destination
    \o (IF IndexOf(destination, <<"?">>, 1) = 0 THEN <<"?">> ELSE <<"&">>)
    \o ranKey \o <<"=">> \o ranVal

CachebustTechnique(destination) ==
  {Href(destination, ranKey, ranVal) : ranKey \in RsValues, ranVal \in RsValues}

\* case "CAPITALS", lines 151-156: every character upper or lower case.
RECURSIVE CapitalsTechnique(_)
CapitalsTechnique(destination) ==
  IF destination = <<>> THEN {<<>>}
  ELSE {<<c>> \o rest :
          c \in {CharToUpperCase(Head(destination)), CharToLowerCase(Head(destination))},
          rest \in CapitalsTechnique(Tail(destination))}

\* One turn of the switch of lines 149-173 on a run state
\* [destination, applied, threw]; applied lists the cases that ran.
Technique(technique, run) ==
  IF run.threw THEN {run}
  ELSE IF technique = CAPITALS
  THEN {[run EXCEPT !.destination = d, !.applied = Append(run.applied, technique)]
          : d \in CapitalsTechnique(run.destination)}
  ELSE IF technique = CACHEBUST
  THEN IF IsURL(run.destination)
       THEN {[run EXCEPT !.destination = d, !.applied = Append(run.applied, technique)]
               : d \in CachebustTechnique(run.destination)}
       ELSE {[run EXCEPT !.threw = TRUE]}
  ELSE IF technique = RANDOM
  THEN {[run EXCEPT !.destination = d, !.applied = Append(run.applied, technique)]
          : d \in RandomTechnique(run.destination)}
  ELSE {run}

\* for (const technique of techniques), lines 146-175
RECURSIVE Techniques(_, _)
Techniques(techniques, runs) ==
  IF techniques = <<>> THEN runs
  ELSE Techniques(Tail(techniques),
                  UNION {Technique(Head(techniques), run) : run \in runs})

\* if (shortlink.linkbust) { techniques = shortlink.linkbust.split("|") ... }
Linkbust(shortlink) ==
  LET run0 == [destination |-> shortlink.destination, applied |-> <<>>,
               threw |-> FALSE]
  IN IF shortlink.linkbust # <<>>
     THEN Techniques(Split(shortlink.linkbust, Bar, 1), {run0})
     ELSE {run0}

\* ------------------------------------------------------------ POST /l
GET == <<"G","E","T">>
POST == <<"P","O","S","T">>

\* JSON.stringify of a flat object, given as its sequence of <<key, value>>
\* pairs of strings, and JSON.parse of a stored text.  NULL is <<>>;
\* JSON.parse(null) is null.
DQuote == "dq"            \* the character U+0022
RECURSIVE JsonMembers(_)
JsonMembers(pairs) ==
  IF pairs = <<>> THEN <<>>
  ELSE <<DQuote>> \o pairs[1][1] \o <<DQuote, ":", DQuote>> \o pairs[1][2] \o <<DQuote>>
       \o (IF Len(pairs) > 1 THEN <<",">> \o JsonMembers(Tail(pairs)) ELSE <<>>)
JsonStringify(pairs) == <<"{">> \o JsonMembers(pairs) \o <<"}">>

DataObjects == { <<>>, << <<<<"k">>, <<"v">>>> >> }
JsonParses(text) == text = <<>> \/ \E o \in DataObjects : JsonStringify(o) = text
JsonParse(text) ==
  IF text = <<>> THEN <<>> ELSE CHOOSE o \in DataObjects : JsonStringify(o) = text

\* The 400 answers of POST /l, lines 213-252: "" when the body is accepted.
\* body.data and body.linkbust are [type, value]: type is the typeof of
\* the value sent ("undefined" when the field is absent or falsy).
PostLinkError(body) ==
  IF body.method = <<>> THEN "Missing method parameter."
  ELSE IF ToUpperCase(body.method) \notin {GET, POST}
       THEN "Invalid method parameter."
  ELSE IF body.destination = <<>> THEN "Missing destination parameter."
  ELSE IF body.data.type # "undefined" /\ body.method = GET
       THEN "A method of GET cannot contain form-data."
  ELSE IF body.data.type \notin {"undefined", "object"}
       THEN "The data parameter must be a key-value object."
  ELSE IF body.linkbust.type \notin {"undefined", "object"}
       THEN "The linkbust parameter must be an array."
  ELSE ""

\* Lines 254-268: the names sent, upper-cased, pushed in the fixed order
\* and joined with "|".
LinkbustList(names) ==
  LET linkbust == [i \in 1..Len(names) |-> ToUpperCase(names[i])]
      includes(t) == \E i \in 1..Len(linkbust) : linkbust[i] = t
      pushed == (IF includes(RANDOM) THEN <<RANDOM>> ELSE <<>>)
                \o (IF includes(CACHEBUST) THEN <<CACHEBUST>> ELSE <<>>)
                \o (IF includes(CAPITALS) THEN <<CAPITALS>> ELSE <<>>)
  IN Join(pushed, Bar)

\* Lines 197-290, one turn of the event loop: the insert is sent without
\* await and the answer does not wait for it.  A linkbust that is an
\* object but no array has no map(): the handler throws and sends nothing.
\* POST /l exists in the richer variant only.
\* The row with the method as it was sent.
ShortlinkRowAsSent(code, body) ==
  [id |-> 0, request |-> 0, code |-> code,
   method |-> body.method,
   data |-> IF body.data.type # "undefined"
            THEN JsonStringify(body.data.value) ELSE <<>>,
   destination |-> body.destination,
   linkbust |-> IF body.linkbust.type # "undefined"
                THEN LinkbustList(body.linkbust.value) ELSE <<>>,
   submitted |-> IF body.linkbust.type # "undefined"
                 THEN body.linkbust.value ELSE <<>>]

\* The row of lines 271-278; its id is given by the table on insert.  The
\* fields submitted and request are history fields: the linkbust array as
\* it was sent and the number of the request that sent the row (0 for a
\* row that was there before the first request).
ShortlinkRow(code, body) ==
  [id |-> 0, request |-> 0, code |-> code,
   method |-> ToUpperCase(body.method),
   data |-> IF body.data.type # "undefined"
            THEN JsonStringify(body.data.value) ELSE <<>>,
   destination |-> body.destination,
   linkbust |-> IF body.linkbust.type # "undefined"
                THEN LinkbustList(body.linkbust.value) ELSE <<>>,
   submitted |-> IF body.linkbust.type # "undefined"
                 THEN body.linkbust.value ELSE <<>>]

PostLink(p, bodies) ==
  /\ Free(p)
  /\ variant = "rich"
  /\ \E body \in bodies, ran \in RsValues :
       LET code == IF body.code = <<>> THEN ran ELSE body.code
           err == PostLinkError(body)
           r0 == [Idle EXCEPT !.kind = "post_l", !.n = started + 1,
                              !.body = body, !.code = code]
           row == ShortlinkRow(code, body)
       IN IF err # ""
          THEN /\ req' = [req EXCEPT ![p] =
                      [r0 EXCEPT !.pc = "done", !.res.status = 400, !.res.view = err]]
               /\ pending' = pending
          ELSE IF body.linkbust.type = "object" /\ ~body.linkbust.array
          THEN /\ req' = [req EXCEPT ![p] = [r0 EXCEPT !.pc = "crashed"]]
               /\ pending' = pending
          ELSE /\ req' = [req EXCEPT ![p] =
                      [r0 EXCEPT !.pc = "done", !.res.status = 200,
                                 !.res.view = "Shortlink creation in progress."]]
               /\ pending' = pending \cup
                    {[n |-> started + 1, table |-> "shortlinks", row |-> row]}
  /\ started' = started + 1
  /\ UNCHANGED <<variant, tables, clock>>

\* ------------------------------------------- GET /l/:code, resolution
RECURSIVE OrderByIdAscending(_)
OrderByIdAscending(rows) ==
  IF rows = {} THEN <<>>
  ELSE LET low == CHOOSE r \in rows : \A o \in rows : r.id <= o.id
       IN <<low>> \o OrderByIdAscending(rows \ {low})

\* knex("shortlinks").where("code", code).orderBy("id", "DESC")
RECURSIVE OrderByIdDesc(_)
OrderByIdDesc(rows) ==
  IF rows = {} THEN <<>>
  ELSE LET top == CHOOSE r \in rows : \A o \in rows : o.id <= r.id
       IN <<top>> \o OrderByIdDesc(rows \ {top})

\* .first(): the first row of the ordered result, <<>> when there is none
First(rows) == IF rows = <<>> THEN <<>> ELSE <<rows[1]>>

ShortlinkLookup(code) ==
  First(OrderByIdDesc({shortlinks[i] : i \in {j \in 1..Len(shortlinks) :
                                               shortlinks[j].code = code}}))

\* Lines 139-194 (567-581): the row is read, the techniques run, the
\* dynamic_urls insert is sent without await, and the answer is a redirect
\* or the rendered form.  The simplified variant has neither techniques nor
\* dynamic_urls.  A throw (new URL, JSON.parse) rejects the handler's
\* promise, which nothing catches: no answer is sent.
GetShortlink(p) ==
  /\ req[p].pc = "get_shortlink"
  /\ LET found == ShortlinkLookup(req[p].code)
         r1 == [req[p] EXCEPT !.shortlink = found]
     IN IF found = <<>>
        THEN /\ req' = [req EXCEPT ![p] =
                    [r1 EXCEPT !.pc = "done", !.res.status = 200,
                               !.res.view = "404.handlebars"]]
             /\ pending' = pending
        ELSE \E run \in (IF variant = "rich" THEN Linkbust(found[1])
                         ELSE {[destination |-> found[1].destination,
                                applied |-> <<>>, threw |-> FALSE]}) :
               LET r2 == [r1 EXCEPT !.applied = run.applied]
                   sent == IF variant = "rich"
                           THEN {[n |-> r1.n, table |-> "dynamic_urls",
                                  row |-> [user_id |-> r1.user_id,
                                           full_url |-> run.destination]]}
                           ELSE {}
               IN IF run.threw
                  THEN /\ req' = [req EXCEPT ![p] = [r2 EXCEPT !.pc = "crashed"]]
                       /\ pending' = pending
                  ELSE IF found[1].method = GET
                  THEN /\ req' = [req EXCEPT ![p] =
                              [r2 EXCEPT !.pc = "done", !.res.status = 302,
                                         !.res.location = run.destination]]
                       /\ pending' = pending \cup sent
                  ELSE IF JsonParses(found[1].data)
                  THEN /\ req' = [req EXCEPT ![p] =
                              [r2 EXCEPT !.pc = "done", !.res.status = 200,
                                         !.res.view = "postlink.handlebars",
                                         !.res.location = run.destination,
                                         !.data = JsonParse(found[1].data)]]
                       /\ pending' = pending \cup sent
                  ELSE /\ req' = [req EXCEPT ![p] = [r2 EXCEPT !.pc = "crashed"]]
                       /\ pending' = pending \cup sent
  /\ UNCHANGED <<variant, tables, clock, started>>

\* ------------------------------------------------ POST / (ip_change)
\* The id AUTO_INCREMENT gives a new ips row: greater than every id in
\* the table.
NextIpId == Max({0} \cup {r.id : r \in ips}) + 1

IpsOf(userId) == {r \in ips : r.user_id = userId}

\* The step after the delete or after the inserts of ip_1: lines 318, 328
\* and 338 (604, 611, 618); 0 is an empty or missing field.
AfterDelete(body) ==
  IF body.ip_1 # 0 THEN "ip_insert_1"
  ELSE IF body.ip_2 # 0 THEN "ip_insert_2" ELSE "ip_refresh"
AfterFirst(body) == IF body.ip_2 # 0 THEN "ip_insert_2" ELSE "ip_refresh"

\* Lines 55-62 and 309-316 (596-602): authed, then the test of the type;
\* the delete is sent and awaited.
IpStart(p, updates) ==
  /\ Free(p)
  /\ \E update \in updates :
       LET r0 == [Idle EXCEPT !.kind = "ip", !.n = started + 1,
                              !.session_user = update.session_user,
                              !.user = update.session_user,
                              !.body = [type |-> update.type, ip_1 |-> update.ip_1,
                                        ip_2 |-> update.ip_2]]
       IN req' = [req EXCEPT ![p] =
            IF update.session_user = 0
            THEN [r0 EXCEPT !.pc = "done", !.res.status = 302,
                            !.res.location = <<"/","l","o","g","i","n">>]
            ELSE IF update.type # "ip_change"
            THEN [r0 EXCEPT !.pc = "done", !.res.status = 302,
                            !.res.location = <<"/">>]
            ELSE [r0 EXCEPT !.pc = "ip_delete"]]
  /\ started' = started + 1
  /\ UNCHANGED <<variant, tables, pending, clock>>

\* Line 316 (602): knex("ips").where("user_id", ...).delete()
IpDelete(p) ==
  /\ req[p].pc = "ip_delete"
  /\ ips' = ips \ IpsOf(req[p].user)
  /\ req' = [req EXCEPT ![p].pc = AfterDelete(req[p].body)]
  /\ UNCHANGED <<variant, sessions, saved_sessions, saved_ips, shortlinks,
                 outbound, dynamic_urls, pending, clock, started>>

\* Lines 324 and 334 (605-608, 612-615): knex("ips").insert(ip)
IpInsert(p) ==
  /\ req[p].pc \in {"ip_insert_1", "ip_insert_2"}
  /\ LET first == req[p].pc = "ip_insert_1"
         address == IF first THEN req[p].body.ip_1 ELSE req[p].body.ip_2
     IN /\ ips' = ips \cup {[id |-> NextIpId, user_id |-> req[p].user,
                             ip_address |-> address]}
        /\ req' = [req EXCEPT ![p].pc =
             IF variant = "rich"
             THEN (IF first THEN "ip_saved_1" ELSE "ip_saved_2")
             ELSE (IF first THEN AfterFirst(req[p].body) ELSE "ip_refresh")]
  /\ UNCHANGED <<variant, sessions, saved_sessions, saved_ips, shortlinks,
                 outbound, dynamic_urls, pending, clock, started>>

\* Lines 325 and 335, richer variant: knex("saved_ips").insert(ip)
IpSaved(p) ==
  /\ req[p].pc \in {"ip_saved_1", "ip_saved_2"}
  /\ LET first == req[p].pc = "ip_saved_1"
         address == IF first THEN req[p].body.ip_1 ELSE req[p].body.ip_2
     IN /\ saved_ips' = Append(saved_ips, [user_id |-> req[p].user,
                                           ip_address |-> address])
        /\ req' = [req EXCEPT ![p].pc =
             IF first THEN AfterFirst(req[p].body) ELSE "ip_refresh"]
  /\ UNCHANGED <<variant, sessions, saved_sessions, ips, shortlinks,
                 outbound, dynamic_urls, pending, clock, started>>

\* Lines 338-346 (618-626): the grants are read back into the browser
\* session and the answer is a redirect to the dashboard.
IpRefresh(p) ==
  /\ req[p].pc = "ip_refresh"
  /\ req' = [req EXCEPT ![p] =
       [req[p] EXCEPT !.pc = "done", !.res.status = 302,
                      !.res.location = <<"/">>,
                      !.data = {r.ip_address : r \in IpsOf(req[p].user)}]]
  /\ UNCHANGED <<variant, tables, pending, clock, started>>

IpUpdate(p) ==
  \/ IpDelete(p)
  \/ IpInsert(p)
  \/ IpSaved(p)
  \/ IpRefresh(p)

\* ------------------------------------------------ initial databases
\* Session tables that sequential logins without a cookie produce: user 1
\* logged in Len(order) times and was given the ids of order in turn,
\* user 2 logged in other times.
SeedSessions(order, other) ==
  {[id |-> order[i], user_id |-> 1, created_at |-> i] : i \in 1..Len(order)}
  \cup {[id |-> 11, user_id |-> 2, created_at |-> Len(order) + i]
          : i \in 1..other}

SeedOrders == {<<>>, <<14, 12, 16, 13>>, <<14, 12, 16, 13, 15>>}

\* The grants that IP updates of the two users leave behind.
IpSeeds ==
  { {},
    {[id |-> 1, user_id |-> 1, ip_address |-> 101]},
    {[id |-> 1, user_id |-> 2, ip_address |-> 101]},
    {[id |-> 1, user_id |-> 2, ip_address |-> 101],
     [id |-> 2, user_id |-> 1, ip_address |-> 101]},
    {[id |-> 1, user_id |-> 1, ip_address |-> 101],
     [id |-> 2, user_id |-> 2, ip_address |-> 102]} }

\* The shortlinks table after the given rows were inserted in turn.
SeedLinks(rows) == [i \in 1..Len(rows) |-> [rows[i] EXCEPT !.id = i]]

InitDb(orders, ipSeeds, linkSeeds) ==
  /\ \E order \in orders :
     LET other == IF order = <<>> THEN 0 ELSE 1 IN
       /\ sessions = SeedSessions(order, other)
       /\ saved_sessions = {[id |-> r.id, user_id |-> r.user_id] : r \in sessions}
       /\ clock = Len(order) + other + 1
  /\ ips \in ipSeeds
  /\ saved_ips = <<>>
  /\ shortlinks \in linkSeeds
  /\ outbound = <<>>
  /\ dynamic_urls = <<>>
  /\ pending = {}
  /\ req = [p \in Procs |-> Idle]
  /\ started = 0

\* ------------------------------------------------------ specifications
\* Logins, two at a time.
InitLogin ==
  /\ variant \in Variants
  /\ InitDb(SeedOrders, {{}}, {<<>>})

NextLogin == \E p \in Procs : Login(p)

SpecLogin == InitLogin /\ [][NextLogin]_vars

\* The trust evaluation of GET /l/:code, one request after the other, over
\* every combination of browser session, cookie and address.
CodeC1 == <<"c","1">>

TrustRequests ==
  [session_user : {0} \cup UserIds, cookie : CookieValues, ip : IPs,
   code : {CodeC1}]

InitTrust ==
  /\ variant \in Variants
  /\ InitDb({<<>>, <<14>>}, IpSeeds, {<<>>})

NextTrust ==
  \/ GetStart(1, TrustRequests)
  \/ GetCookie(1)
  \/ GetIp(1)
  \/ GetOutbound(1)
  \/ GetShortlink(1)
  \/ PendingRun

SpecTrust == InitTrust /\ [][NextTrust]_vars

\* Creation and resolution of shortlinks, one request after the other, by
\* a requester whom tier 1 authorizes in both variants.
Undefined == [type |-> "undefined", value |-> <<>>, array |-> FALSE]
ObjectValue(v) == [type |-> "object", value |-> v, array |-> FALSE]
StringValue(v) == [type |-> "string", value |-> v, array |-> FALSE]
ArrayValue(v) == [type |-> "object", value |-> v, array |-> TRUE]

UrlA == <<"h",":","a">>
UrlB == <<"h",":","b">>
Codes == {CodeC1} \cup RsValues

MemberRequestsFor(codes) ==
  [session_user : {1}, cookie : {0}, ip : {101}, code : codes]
MemberRequests == MemberRequestsFor(Codes)

ResolveBodies ==
  [code : {<<>>, CodeC1},
   method : {<<>>, GET, <<"g","e","t">>, POST, <<"P","U","T">>},
   destination : {<<>>, UrlA},
   data : {Undefined, ObjectValue(<< <<<<"k">>, <<"v">>>> >>), StringValue(<<"x">>)},
   linkbust : {Undefined}]

Body(method, destination, names) ==
  [code |-> CodeC1, method |-> method, destination |-> destination,
   data |-> Undefined,
   linkbust |-> IF names = <<>> THEN Undefined ELSE ArrayValue(names)]

ResolveLinkSeeds ==
  { <<>>,
    SeedLinks(<< ShortlinkRow(CodeC1, Body(GET, UrlA, <<>>)),
                 ShortlinkRow(<<"4","5","6","7","8">>, Body(GET, UrlA, <<>>)),
                 ShortlinkRow(CodeC1, Body(POST, UrlB, <<>>)) >>) }

InitResolve ==
  /\ variant \in Variants
  /\ InitDb({<<>>}, {{}}, ResolveLinkSeeds)

NextResolve ==
  \/ PostLink(1, ResolveBodies)
  \/ GetStart(1, MemberRequests)
  \/ GetOutbound(1)
  \/ GetShortlink(1)
  \/ PendingRun

SpecResolve == InitResolve /\ [][NextResolve]_vars

\* RANDOM links: destinations with 0..MaxPlaceholders placeholders.
RECURSIVE WithPlaceholders(_)
WithPlaceholders(n) ==
  IF n = 0 THEN UrlA ELSE WithPlaceholders(n - 1) \o <<"/">> \o Placeholder

RandomBodies ==
  {Body(GET, WithPlaceholders(n), names) :
     n \in 0..MaxPlaceholders,
     names \in {<<RANDOM>>, << <<"r","a","n","d","o","m">> >>}}

InitRich ==
  /\ variant = "rich"
  /\ InitDb({<<>>}, {{}}, {<<>>})

NextRandom ==
  \/ PostLink(1, RandomBodies)
  \/ GetStart(1, MemberRequestsFor({CodeC1}))
  \/ GetShortlink(1)
  \/ PendingRun

SpecRandom == InitRich /\ [][NextRandom]_vars

\* Linkbust arrays in any order and letter case, with duplicates and
\* unknown names, on an absolute and on a relative destination.
LinkbustNames ==
  { <<"r","a","n","d","o","m">>, CACHEBUST, <<"C","a","p","i","t","a","l","s">>,
    <<"b","o","g","u","s">> }
LinkbustArrays == UNION {[1..n -> LinkbustNames] : n \in 1..3}
UrlRan == <<"h",":">> \o Placeholder
RelativeA == <<"/","a">>

LinkbustBodies ==
  {Body(GET, destination, names) :
     destination \in {UrlRan, RelativeA}, names \in LinkbustArrays \cup {<<>>}}

NextLinkbust ==
  \/ PostLink(1, LinkbustBodies)
  \/ GetStart(1, MemberRequestsFor({CodeC1}))
  \/ GetShortlink(1)
  \/ PendingRun

SpecLinkbust == InitRich /\ [][NextLinkbust]_vars


\* An insert that was sent without await is rejected by the database (a
\* value too long for its column, a lost connection).  The shortlinks
\* insert has a catch that logs (lines 282-284); the outbound and
\* dynamic_urls inserts have a then only (134-136, 182-184), so the
\* rejection is reported by the runtime as unhandled.  No table changes.
PendingFail ==
  \E w \in pending :
    /\ pending' = pending \ {w}
    /\ UNCHANGED <<variant, tables, req, clock, started>>

\* Lines 558-564, simplified variant: the awaited outbound insert is
\* rejected.  The await throws inside the async handler, whose promise
\* nothing catches: the handler ends there and no answer is sent.
GetOutboundFails(p) ==
  /\ req[p].pc = "get_outbound"
  /\ req' = [req EXCEPT ![p].pc = "crashed"]
  /\ UNCHANGED <<variant, tables, pending, clock, started>>

\* Resolutions by a member's browser session, in both variants, on a
\* table with links, with audit inserts that may fail.
InitAudit ==
  /\ variant \in Variants
  /\ InitDb({<<>>}, {{}}, ResolveLinkSeeds)

NextAudit ==
  \/ GetStart(1, MemberRequests)
  \/ GetOutbound(1)
  \/ GetOutboundFails(1)
  \/ GetShortlink(1)
  \/ PendingRun
  \/ PendingFail

SpecAudit == InitAudit /\ [][NextAudit]_vars

\* A query or write that POST /login awaits is rejected (lines 390, 404,
\* 409, 412, 419, 431-432; simplified 670-707).  The handler has no
\* try/catch: the await throws, the handler's promise is rejected, nothing
\* catches it, and no answer is sent.
LoginFails(p) ==
  /\ req[p].pc \in {"login_cookie", "login_list", "login_evict", "login_insert",
                    "login_saved", "login_refresh"}
  /\ req' = [req EXCEPT ![p].pc = "crashed"]
  /\ UNCHANGED <<variant, tables, pending, clock, started>>

\* A lookup that GET /l/:code awaits is rejected (lines 88, 107, 139;
\* simplified 534, 545, 567): as in POST /login, no answer is sent.
GetFails(p) ==
  /\ req[p].pc \in {"get_cookie", "get_ip", "get_shortlink"}
  /\ req' = [req EXCEPT ![p].pc = "crashed"]
  /\ UNCHANGED <<variant, tables, pending, clock, started>>


\* A catch that takes back the rows the update had inserted.
IpFailsUndoingInserts(p) ==
  /\ req[p].pc \in {"ip_delete", "ip_insert_1", "ip_insert_2", "ip_saved_1",
                    "ip_saved_2", "ip_refresh"}
  /\ ips' = ips \ IpsOf(req[p].user)
  /\ req' = [req EXCEPT ![p] =
       [req[p] EXCEPT !.pc = "done", !.res.status = 200,
                      !.res.view = "dashboard.handlebars ip_error"]]
  /\ UNCHANGED <<variant, sessions, saved_sessions, saved_ips, shortlinks,
                 outbound, dynamic_urls, pending, clock, started>>

\* A statement of the IP update is rejected: the catch of lines 339-343
\* (619-623) renders the dashboard with ip_error.  What the statements
\* before it wrote stays written.
IpFails(p) ==
  /\ req[p].pc \in {"ip_delete", "ip_insert_1", "ip_insert_2", "ip_saved_1",
                    "ip_saved_2", "ip_refresh"}
  /\ req' = [req EXCEPT ![p] =
       [req[p] EXCEPT !.pc = "done", !.res.status = 200,
                      !.res.view = "dashboard.handlebars ip_error"]]
  /\ UNCHANGED <<variant, tables, pending, clock, started>>

\* Creation of a shortlink followed by its resolution, richer variant,
\* with inserts that may be late or fail.
NextCreate ==
  \/ PostLink(1, ResolveBodies)
  \/ GetStart(1, MemberRequests)
  \/ GetShortlink(1)
  \/ PendingRun
  \/ PendingFail

SpecCreate == InitRich /\ [][NextCreate]_vars


\* IP updates, one after the other, by either user or without a browser
\* session, on tables with and without earlier grants.
IpUpdates ==
  [session_user : {0} \cup UserIds, type : {"ip_change", "other"},
   ip_1 : {0} \cup IPs, ip_2 : {0} \cup IPs]

IpUpdateSeeds ==
  { {},
    {[id |-> 1, user_id |-> 1, ip_address |-> 101],
     [id |-> 2, user_id |-> 2, ip_address |-> 101],
     [id |-> 3, user_id |-> 1, ip_address |-> 102]} }

InitIp ==
  /\ variant \in Variants
  /\ InitDb({<<>>}, IpUpdateSeeds, {<<>>})

NextIp ==
  \/ IpStart(1, IpUpdates)
  \/ IpUpdate(1)

SpecIp == InitIp /\ [][NextIp]_vars

\* Logins, resolutions and IP updates, one request after the other, with
\* database operations that may fail.
InitFailure ==
  /\ variant \in Variants
  /\ InitDb({<<>>, <<14, 12, 16, 13, 15>>},
            {{}, {[id |-> 1, user_id |-> 1, ip_address |-> 101]}}, {<<>>})

NextFailure ==
  \/ Login(1)
  \/ LoginFails(1)
  \/ GetStart(1, TrustRequests)
  \/ GetCookie(1)
  \/ GetIp(1)
  \/ GetOutbound(1)
  \/ GetShortlink(1)
  \/ GetFails(1)
  \/ PendingRun
  \/ IpStart(1, IpUpdates)
  \/ IpUpdate(1)
  \/ IpFails(1)

SpecFailure == InitFailure /\ [][NextFailure]_vars


\* Resolutions in the richer variant on a table that holds a GET link with
\* RANDOM, a POST link with a payload, and a POST link whose data column
\* holds text that is no JSON (a row saved directly to the database, see
\* the comment at line 200), by requesters of every tier and of none.
CodeNone == <<"n","o">>
Payload == << <<<<"k">>, <<"v">>>> >>
MalformedData == <<"{">>

DynamicLinkSeeds ==
  { SeedLinks(<<
      ShortlinkRow(CodeC1, Body(GET, UrlRan, <<RANDOM>>)),
      ShortlinkRow(<<"0","1","2","3","k">>,
                   [Body(POST, UrlA, <<>>) EXCEPT !.data = ObjectValue(Payload)]),
      [ShortlinkRow(<<"4","5","6","7","8">>, Body(POST, UrlB, <<>>))
         EXCEPT !.data = MalformedData] >>) }

DynamicRequests ==
  [session_user : {0} \cup UserIds, cookie : {0, 14, SpoofedId}, ip : IPs,
   code : Codes \cup {CodeNone}]

InitDynamic ==
  /\ variant = "rich"
  /\ InitDb({<<14>>}, {{[id |-> 1, user_id |-> 1, ip_address |-> 101]}},
            DynamicLinkSeeds)

NextDynamic ==
  \/ GetStart(1, DynamicRequests)
  \/ GetCookie(1)
  \/ GetIp(1)
  \/ GetShortlink(1)
  \/ PendingRun

SpecDynamic == InitDynamic /\ [][NextDynamic]_vars


\* IP updates of user 1, two at a time.
RaceUpdates ==
  [session_user : {1}, type : {"ip_change"},
   ip_1 : {0} \cup IPs, ip_2 : {0} \cup IPs]

InitIpRace ==
  /\ variant \in Variants
  /\ InitDb({<<>>}, {{}}, {<<>>})

NextIpRace ==
  \E p \in Procs :
    \/ IpStart(p, RaceUpdates)
    \/ IpUpdate(p)

SpecIpRace == InitIpRace /\ [][NextIpRace]_vars


\* An IP update of user 1 in slot 1, with statements that may fail, and a
\* resolution without browser session or cookie in slot 2 while the update
\* runs.  Every initial table grants address 101 to user 1.
AtomicSeeds ==
  { {[id |-> 1, user_id |-> 1, ip_address |-> 101]},
    {[id |-> 1, user_id |-> 1, ip_address |-> 101],
     [id |-> 2, user_id |-> 1, ip_address |-> 102]} }

AtomicRequests == [session_user : {0}, cookie : {0}, ip : IPs, code : {CodeC1}]

InitIpAtomic ==
  /\ variant \in Variants
  /\ InitDb({<<>>}, AtomicSeeds, {<<>>})

NextIpAtomic ==
  \/ IpStart(1, RaceUpdates)
  \/ IpUpdate(1)
  \/ IpFails(1)
  \/ GetStart(2, AtomicRequests)
  \/ GetIp(2)
  \/ GetOutbound(2)
  \/ GetShortlink(2)
  \/ PendingRun

SpecIpAtomic == InitIpAtomic /\ [][NextIpAtomic]_vars


\* Creation requests with every kind of linkbust value: none, an array, a
\* string, and an object that is no array (JSON {"a": "RANDOM"}, or
\* linkbust[a]=RANDOM in a urlencoded body, line 20).
ValidateBodies ==
  [code : {<<>>, CodeC1},
   method : {<<>>, GET, POST, <<"P","U","T">>},
   destination : {<<>>, UrlA},
   data : {Undefined, ObjectValue(Payload), StringValue(<<"x">>)},
   linkbust : {Undefined, ArrayValue(<<RANDOM>>), StringValue(RANDOM),
               ObjectValue(<<RANDOM>>)}]

NextValidate ==
  \/ PostLink(1, ValidateBodies)
  \/ PendingRun
  \/ PendingFail

SpecValidate == InitRich /\ [][NextValidate]_vars


\* Logins of a user who holds MaxSessions sessions, and resolutions that
\* present the cookie of one of those sessions and nothing else, from a
\* granted address (101) and from one without grant (102), during a login
\* and between logins.
EvictRequests ==
  [session_user : {0}, cookie : {12, 14}, ip : IPs, code : {CodeC1}]

InitEvict ==
  /\ variant \in Variants
  /\ InitDb({<<14, 12, 16, 13, 15>>},
            {{[id |-> 1, user_id |-> 1, ip_address |-> 101]}}, {<<>>})

NextEvict ==
  \/ Login(1)
  \/ PendingRun
  \/ \E p \in Procs :
       \/ GetStart(p, EvictRequests)
       \/ GetCookie(p)
       \/ GetIp(p)
       \/ GetOutbound(p)
       \/ GetShortlink(p)

SpecEvict == InitEvict /\ [][NextEvict]_vars


\* Resolutions alone, one after the other while the inserts of the one
\* before may still be in the pool, in both variants: requesters of every
\* tier and of none, and, for the member's browser session, codes with a
\* GET link, with POST links (one of them with a payload that does not
\* parse) and without a link.
FrameRequests ==
  MemberRequestsFor(Codes \cup {CodeNone})
  \cup [session_user : {0}, cookie : {14, SpoofedId}, ip : IPs, code : {CodeC1}]

InitFrame ==
  /\ variant \in Variants
  /\ InitDb({<<14>>}, {{[id |-> 1, user_id |-> 1, ip_address |-> 101]}},
            DynamicLinkSeeds)

NextFrame ==
  \/ GetStart(1, FrameRequests)
  \/ GetCookie(1)
  \/ GetIp(1)
  \/ GetOutbound(1)
  \/ GetShortlink(1)
  \/ PendingRun

SpecFrame == InitFrame /\ [][NextFrame]_vars

\* ============================================================== claims
Member(userId) == userId # 0 /\ UserById(userId).member

\* The trust evaluation of the request in slot p has ended.
Decided(p) ==
  /\ req[p].kind = "get_l"
  /\ req[p].pc \in {"get_outbound", "get_shortlink", "done", "crashed"}

UserAuthorized(p) ==
  /\ req[p].pc \notin {"get_cookie", "get_ip"}
  /\ req[p].lookups = <<>>
  /\ req[p].method_name = "USER"
  /\ req[p].method_value = req[p].session_user
  /\ req[p].res.status # 401
  /\ ~req[p].res.clear_cookie

\* C1 as stated: every GET /l/:code request that carries a browser-session
\* user is authorized with method USER and value = the user's id, and no
\* cookie or IP lookup is made for it.
C1_SessionUserAuthorizesAsUser ==
  \A p \in Procs :
    req[p].kind = "get_l" /\ req[p].session_user # 0 => UserAuthorized(p)

\* C1 amended: the same for a browser-session user whose member flag is set
\* (richer variant) and for any browser-session user (simplified variant).
C1_MemberSessionUserAuthorizesAsUser ==
  \A p \in Procs :
    /\ req[p].kind = "get_l"
    /\ req[p].session_user # 0
    /\ (variant = "rich" => Member(req[p].session_user))
    => UserAuthorized(p)

\* A request with a browser session, a cookie that matches no row and an
\* address someone granted was authorized by tier 1 and answered.
C1_Witness ==
  \E p \in Procs :
    /\ req[p].kind = "get_l" /\ req[p].pc = "done"
    /\ req[p].session_user # 0 /\ req[p].cookie = SpoofedId
    /\ \E g \in ips : g.ip_address = req[p].ip
    /\ req[p].method_name = "USER"

\* C2 as stated: the answer is 401 exactly when the request has no
\* browser-session user, its cookie matches no row of sessions and no grant
\* exists for its address; otherwise the first tier that matches, in the
\* order USER, SESSION, IP, authorizes it.
C2_UnauthorizedIffNothingMatches ==
  \A p \in Procs : Decided(p) =>
    LET hasUser == req[p].session_user # 0
        hasRow == \E r \in sessions : r.id = req[p].cookie
        hasGrant == \E g \in ips : g.ip_address = req[p].ip
    IN /\ req[p].res.status = 401 <=> ~hasUser /\ ~hasRow /\ ~hasGrant
       /\ req[p].res.status # 401 =>
            req[p].method_name = IF hasUser THEN "USER"
                                 ELSE IF hasRow THEN "SESSION" ELSE "IP"

\* C2 amended: a tier matches when its record exists and, in the richer
\* variant, belongs to a member (the browser-session user, the user of the
\* cookie's row, the user of the grant the IP lookup returned).  The answer
\* is 401 exactly when no tier matches; otherwise the first matching tier
\* authorizes, with its own value.
C2_UnauthorizedIffNoTierMatches ==
  \A p \in Procs : Decided(p) =>
    LET rich == variant = "rich"
        tier1 == req[p].session_user # 0
                 /\ (rich => Member(req[p].session_user))
        tier2 == \E r \in sessions :
                   r.id = req[p].cookie /\ (rich => Member(r.user_id))
        tier3 == \E g \in req[p].ipSession : rich => Member(g.id)
    IN /\ req[p].res.status = 401 <=> ~tier1 /\ ~tier2 /\ ~tier3
       /\ "IP" \in {req[p].lookups[i] : i \in 1..Len(req[p].lookups)} =>
            (req[p].ipSession = {} <=> ~\E g \in ips : g.ip_address = req[p].ip)
       /\ req[p].res.status # 401 =>
            /\ req[p].method_name = IF tier1 THEN "USER"
                                    ELSE IF tier2 THEN "SESSION" ELSE "IP"
            /\ req[p].method_value = IF tier1 THEN req[p].session_user
                                     ELSE IF tier2 THEN req[p].cookie ELSE req[p].ip

\* A non-member's browser session, cookie and grant were all passed over
\* and the request was answered 401, while another was authorized by IP.
C2_Witness ==
  /\ variant = "rich"
  /\ \E p \in Procs :
       /\ Decided(p) /\ req[p].res.status = 401
       /\ req[p].session_user = 2 /\ req[p].cookie = 11
       /\ \E g \in req[p].ipSession : ~g.member
  /\ \E row \in {outbound[i] : i \in 1..Len(outbound)} : row.auth_method = "IP"

\* C3: a request without browser session whose cookie matches no session
\* row gets the cookie cleared and goes through the IP tier once, the
\* cookie tier having run once; a cookie that matches a row is not cleared.
C3_StaleCookieClearedThenIpTier ==
  \A p \in Procs :
    /\ req[p].kind = "get_l" /\ req[p].pc # "get_cookie"
    /\ req[p].session_user = 0 /\ req[p].cookie # 0
    => LET matches == \E r \in sessions : r.id = req[p].cookie
       IN /\ matches <=> req[p].session # {}
          /\ ~matches =>
               /\ req[p].res.clear_cookie
               /\ \/ req[p].pc = "get_ip" /\ req[p].lookups = <<"SESSION">>
                  \/ req[p].pc # "get_ip" /\ req[p].lookups = <<"SESSION", "IP">>
          /\ matches => ~req[p].res.clear_cookie

\* A spoofed cookie was cleared and the request was then decided by the IP
\* tier; another cookie matched a non-member's row and was kept.
C3_Witness ==
  \E p \in Procs :
    /\ Decided(p) /\ req[p].session_user = 0 /\ req[p].cookie = SpoofedId
    /\ req[p].res.clear_cookie /\ req[p].lookups = <<"SESSION", "IP">>
    /\ req[p].method_name = "IP"

SessionsOf(userId) == {r \in sessions : r.user_id = userId}

\* C4 as stated: in every reachable state every user has at most 5 rows in
\* the sessions table, whatever the interleaving of the logins.
C4_AtMostFiveSessions ==
  \A u \in UserIds : Cardinality(SessionsOf(u)) <= MaxSessions

\* C5 as stated: the eviction of a login of a user with exactly 5 sessions
\* deletes exactly one row, the oldest in creation order.
C5_EvictsExactlyTheOldest ==
  [][\A p \in Procs :
       /\ req[p].pc = "login_evict" /\ req'[p].pc = "login_insert"
       /\ Cardinality(SessionsOf(req[p].user)) = MaxSessions
       => LET mine == SessionsOf(req[p].user)
              oldest == CHOOSE r \in mine : \A o \in mine : r.created_at <= o.created_at
          IN sessions' = sessions \ {oldest}]_vars

\* The row the cookie lookup of a login found belongs to the user logging in.
OwnCookie(p) == \E r \in req[p].currentSession : r.user_id = req[p].user

\* C6 as stated: a login with valid credentials that presents no cookie
\* bound to an active session of this user (none, a stale one, another
\* user's) creates a session with a fresh id, mirrors it and sets the
\* cookie to the new id.
C6_LoginWithoutOwnCookieCreatesSession ==
  \A p \in Procs :
    /\ req[p].kind = "login" /\ req[p].pc = "done" /\ req[p].res.status = 302
    /\ ~OwnCookie(p)
    => /\ req[p].res.set_cookie \in SessionIds
       /\ [id |-> req[p].res.set_cookie, user_id |-> req[p].user] \in saved_sessions

\* C7: no step of a login whose cookie matches an active session of the
\* same user changes sessions or saved_sessions, and it sets no cookie.
C7_ReloginChangesNothing ==
  [][\A p \in Procs :
       /\ req[p].kind = "login" /\ req'[p].n = req[p].n /\ req'[p] # req[p]
       /\ OwnCookie(p) \/ (req[p].pc = "login_cookie" /\
                           \E r \in sessions : r.id = req[p].cookie
                                               /\ r.user_id = req[p].user)
       => /\ sessions' = sessions
          /\ saved_sessions' = saved_sessions
          /\ req'[p].res.set_cookie = 0
          /\ req'[p].pc \in {"login_refresh", "done"}]_vars

\* A user with sessions logged in again with the cookie of one of them and
\* was redirected.
C7_Witness ==
  \E p \in Procs :
    /\ req[p].kind = "login" /\ req[p].pc = "done" /\ req[p].res.status = 302
    /\ OwnCookie(p)

\* C8: an authorized GET /l/:code selects, among the rows whose code is
\* the requested one, the row with the greatest id (so the selection is a
\* function of the table), and answers with the not-found view when no row
\* has the code.
C8_ResolvesGreatestId ==
  [][\A p \in Procs :
       req[p].pc = "get_shortlink" /\ req'[p].pc # "get_shortlink"
       => LET matching == {i \in 1..Len(shortlinks) :
                             shortlinks[i].code = req[p].code}
          IN IF matching = {}
             THEN /\ req'[p].shortlink = <<>>
                  /\ req'[p].res.view = "404.handlebars"
             ELSE /\ req'[p].shortlink = <<shortlinks[Max(matching)]>>
                  /\ \A i \in matching : shortlinks[i].id <= req'[p].shortlink[1].id
                  /\ req'[p].res.view # "404.handlebars"]_vars

\* A code with an older and a newer row was resolved to the newer row.
C8_Witness ==
  \E p \in Procs :
    /\ req[p].kind = "get_l" /\ req[p].pc = "done" /\ req[p].shortlink # <<>>
    /\ \E i \in 1..Len(shortlinks) :
         /\ shortlinks[i].code = req[p].code
         /\ shortlinks[i].id < req[p].shortlink[1].id

Occurs(str, t) ==
  \E i \in 1..Len(str) : i + Len(t) - 1 <= Len(str) /\ SubSeq(str, i, i + Len(t) - 1) = t

\* C9 as stated: after RANDOM no occurrence of %RAN% is left in the
\* destination, however many there were.
C9_RandomReplacesEveryPlaceholder ==
  \A p \in Procs :
    /\ req[p].kind = "get_l" /\ req[p].pc = "done" /\ req[p].shortlink # <<>>
    /\ req[p].shortlink[1].linkbust = RANDOM
    => /\ req[p].applied = <<RANDOM>>
       /\ ~Occurs(req[p].res.location, Placeholder)

\* The recognized names of a linkbust array, once each, in the fixed order.
Recognized(names) ==
  LET present(t) == \E i \in 1..Len(names) : ToUpperCase(names[i]) = t
  IN SelectSeq(<<RANDOM, CACHEBUST, CAPITALS>>, present)

\* The results of techniques applied in turn, each to the result of the
\* one before it.
RECURSIVE Composed(_, _)
Composed(techniques, destinations) ==
  IF techniques = <<>> THEN destinations
  ELSE Composed(Tail(techniques),
         UNION {IF Head(techniques) = RANDOM THEN RandomTechnique(d)
                ELSE IF Head(techniques) = CACHEBUST THEN CachebustTechnique(d)
                ELSE CapitalsTechnique(d) : d \in destinations})

LinkbustInOrder(p) ==
  /\ req[p].pc = "done"
  /\ req[p].applied = Recognized(req[p].shortlink[1].submitted)
  /\ req[p].res.location \in
       Composed(req[p].applied, {req[p].shortlink[1].destination})

Resolved(p) ==
  /\ req[p].kind = "get_l" /\ req[p].pc \in {"done", "crashed"}
  /\ req[p].shortlink # <<>>

\* C10 as stated: whatever linkbust array a shortlink was created with,
\* its resolution applies exactly the recognized names of the array, once
\* each, in the order RANDOM, CACHEBUST, CAPITALS, each to the result of
\* the one before, and without error.
C10_LinkbustAppliedInFixedOrder ==
  \A p \in Procs : Resolved(p) => LinkbustInOrder(p)

\* The same for the shortlinks whose destination new URL() accepts when
\* CACHEBUST runs, and for those without CACHEBUST.
LinkbustInOrderForUrls ==
  \A p \in Procs :
    /\ Resolved(p)
    /\ \/ CACHEBUST \notin {Recognized(req[p].shortlink[1].submitted)[i] :
                              i \in 1..Len(Recognized(req[p].shortlink[1].submitted))}
       \/ IsURL(req[p].shortlink[1].destination)
    => LinkbustInOrder(p)

\* C11 as stated: a POST /l whose method is GET in any letter case and
\* whose data field is not empty is answered 400, and no row of shortlinks
\* has method GET together with a data payload.
C11_GetWithDataRejected ==
  /\ \A p \in Procs :
       /\ req[p].kind = "post_l" /\ req[p].pc \in {"done", "crashed"}
       /\ req[p].body.method # <<>> /\ ToUpperCase(req[p].body.method) = GET
       /\ req[p].body.data.type # "undefined"
       => req[p].res.status = 400
  /\ \A i \in 1..Len(shortlinks) :
       shortlinks[i].method = GET => shortlinks[i].data = <<>>

\* A creation that POST /l answered with 200: its row, still waiting in
\* the pool or already in the table, with the number of its request.
Answered200 ==
  {[w.row EXCEPT !.request = w.n] : w \in {x \in pending : x.table = "shortlinks"}}
  \cup {shortlinks[i] : i \in 1..Len(shortlinks)}

PlainGetRow(row) == row.method = GET /\ row.linkbust = <<>>

\* C12 as stated: once POST /l with a valid GET body without linkbust was
\* answered 200 with code c, every later authorized GET /l/c is answered
\* with a redirect to the submitted destination.
C12_CreatedLinkResolvesAtOnce ==
  \A p \in Procs :
    req[p].kind = "get_l" /\ req[p].pc = "done" /\ req[p].res.status # 401
    => \A row \in Answered200 :
         /\ row.request >= 1 /\ row.request < req[p].n
         /\ row.code = req[p].code /\ PlainGetRow(row)
         => /\ req[p].res.status = 302
            /\ req[p].res.location = row.destination

\* C12 amended: a 200 answer of POST /l puts the row, with the submitted
\* destination and the upper-cased method, into the pool, where it stays
\* until its insert completes or fails; a GET /l/c that reads the table
\* while the greatest-id row of code c is a GET row without linkbust is
\* answered with a redirect to the destination submitted for that row.
C12_InsertedLinkResolves ==
  [][\A p \in Procs :
       /\ req'[p].kind = "post_l" /\ req'[p].n # req[p].n
          /\ req'[p].res.status = 200
          => \E w \in pending' \ pending :
               /\ w.table = "shortlinks" /\ w.n = req'[p].n
               /\ w.row.code = req'[p].code
               /\ w.row.destination = req'[p].body.destination
               /\ w.row.method = ToUpperCase(req'[p].body.method)
       /\ req[p].pc = "get_shortlink" /\ req'[p].pc # "get_shortlink"
          => LET matching == {i \in 1..Len(shortlinks) :
                                shortlinks[i].code = req[p].code}
             IN matching # {} /\ PlainGetRow(shortlinks[Max(matching)])
                => /\ req'[p].pc = "done"
                   /\ req'[p].res.status = 302
                   /\ req'[p].res.location = shortlinks[Max(matching)].destination]_vars

\* A link created by an earlier request of the behaviour was resolved with
\* a redirect to its destination.
C12_Witness ==
  \E p \in Procs :
    /\ req[p].kind = "get_l" /\ req[p].pc = "done" /\ req[p].res.status = 302
    /\ req[p].shortlink # <<>>
    /\ req[p].shortlink[1].request >= 1
    /\ req[p].shortlink[1].request < req[p].n
    /\ req[p].res.location = req[p].shortlink[1].destination

\* An IP update that went through all its steps and was answered.
IpUpdated(p) ==
  /\ req[p].kind = "ip" /\ req[p].pc = "done"
  /\ req[p].session_user # 0 /\ req[p].body.type = "ip_change"
  /\ req[p].res.location = <<"/">>

Supplied(p) == SelectSeq(<<req[p].body.ip_1, req[p].body.ip_2>>, LAMBDA a : a # 0)

\* The user's grants are the addresses supplied, one row for each.
GrantsReplaced(p) ==
  LET mine == IpsOf(req[p].user)
      supplied == Supplied(p)
  IN /\ {r.ip_address : r \in mine} = {supplied[i] : i \in 1..Len(supplied)}
     /\ Cardinality(mine) = Len(supplied)

\* Every address supplied has a row in saved_ips.
GrantsMirrored(p) ==
  \A i \in 1..Len(Supplied(p)) :
    \E j \in 1..Len(saved_ips) :
      saved_ips[j] = [user_id |-> req[p].user, ip_address |-> Supplied(p)[i]]

\* C13 as stated: after an IP update has completed without error the
\* user's grants are exactly the non-empty addresses among ip_1 and ip_2,
\* whatever grants there were, and every address inserted is in SavedIP.
C13_IpUpdateReplacesAndMirrors ==
  \A p \in Procs : IpUpdated(p) => GrantsReplaced(p) /\ GrantsMirrored(p)

\* The first half of C13 in both variants, the second in the richer one.
IpUpdateReplaces ==
  \A p \in Procs :
    IpUpdated(p) => /\ GrantsReplaced(p)
                    /\ variant = "rich" => GrantsMirrored(p)

\* The answer of GET /l/:code for the row the lookup returned: the
\* not-found view, a redirect, or the rendered form.
ResolutionAnswered(p) ==
  /\ req[p].pc = "done"
  /\ IF req[p].shortlink = <<>> THEN req[p].res.view = "404.handlebars"
     ELSE IF req[p].shortlink[1].method = GET THEN req[p].res.status = 302
     ELSE req[p].res.view = "postlink.handlebars"

\* C14 as stated: a failure of the outbound or of the dynamic_urls insert
\* never fails the response of GET /l/:code; the requester gets the
\* answer it gets when the insert succeeds.
C14_AuditFailureNeverFailsResponse ==
  \A p \in Procs :
    /\ req[p].kind = "get_l"
    /\ req[p].pc \notin {"get_cookie", "get_ip", "get_outbound", "get_shortlink"}
    /\ req[p].res.status # 401
    => ResolutionAnswered(p)

\* The same in the richer variant, where no audit insert is awaited.
AuditFailureDroppedWhenNotAwaited ==
  \A p \in Procs :
    /\ variant = "rich"
    /\ req[p].kind = "get_l"
    /\ req[p].pc \notin {"get_cookie", "get_ip", "get_outbound", "get_shortlink"}
    /\ req[p].res.status # 401
    => ResolutionAnswered(p)

\* The 401 answer of a request that presented no cookie.
Unauthorized401 ==
  [NoResponse EXCEPT !.status = 401, !.view = "unauthorized.handlebars"]

\* C15 as stated: all Unauthorized responses are the same in status, body
\* and cookie-changing headers, whether or not a cookie was presented and
\* found stale: each equals the 401 answer of a request without cookie.
C15_UnauthorizedResponsesIdentical ==
  \A p \in Procs :
    req[p].kind = "get_l" /\ req[p].res.status = 401
    => req[p].res = Unauthorized401

\* C15 amended: all Unauthorized responses have the same status and body
\* and set no cookie; they differ in one header only, the clearing of the
\* sessionId cookie, sent exactly when the request presented a cookie that
\* matches no row of sessions.
C15_UnauthorizedDiffersOnlyInClearCookie ==
  \A p \in Procs :
    req[p].kind = "get_l" /\ req[p].res.status = 401
    => req[p].res =
         [Unauthorized401 EXCEPT !.clear_cookie =
            (req[p].cookie # 0 /\ ~\E r \in sessions : r.id = req[p].cookie)]

\* A 401 answer that clears the cookie, in the richer variant, where a
\* 401 answer to a request with a cookie may also keep it.
C15_Witness ==
  /\ variant = "rich"
  /\ \E p \in Procs :
       /\ req[p].kind = "get_l" /\ req[p].res.status = 401
       /\ req[p].cookie = SpoofedId /\ req[p].res.clear_cookie

SavedOf(userId) == {r \in saved_sessions : r.user_id = userId}

\* C16: a login that created a session and went on past the mirror insert
\* has a saved_sessions row with the id and user of its session; every
\* sessions row has its mirror, but for the row of a login that stands
\* between its two inserts; and no step removes a saved_sessions row.
C16_SavedSessionsAppendOnlyMirror ==
  /\ [](/\ \A p \in Procs :
             /\ req[p].kind = "login" /\ req[p].pc \in {"login_refresh", "done"}
             /\ req[p].res.set_cookie # 0
             => /\ req[p].res.set_cookie = req[p].sessionId
                /\ [id |-> req[p].sessionId, user_id |-> req[p].user] \in saved_sessions
        /\ \A r \in sessions :
             \/ [id |-> r.id, user_id |-> r.user_id] \in saved_sessions
             \/ \E p \in Procs : /\ req[p].pc = "login_saved"
                                 /\ req[p].sessionId = r.id
                                 /\ req[p].user = r.user_id)
  /\ [][saved_sessions \subseteq saved_sessions']_vars

\* The sixth session-creating login of user 1 is over: one session was
\* evicted, sessions holds 5 rows of the user and saved_sessions all 6.
C16_Witness ==
  \E p \in Procs :
    /\ req[p].kind = "login" /\ req[p].pc = "done" /\ req[p].user = 1
    /\ req[p].res.set_cookie # 0
    /\ Len(req[p].currentSessions) = MaxSessions
    /\ Cardinality(SessionsOf(1)) = MaxSessions
    /\ Cardinality(SavedOf(1)) = MaxSessions + 1
    /\ \E r \in SavedOf(1) : r.id \notin {s.id : s \in sessions}

\* C17 as stated: a request whose lookup or write on the synchronous path
\* fails is aborted with an error response; no handler ends without
\* having sent a response.
C17_FailedRequestIsAnswered ==
  \A p \in Procs :
    req[p].pc \in {"done", "crashed"} => req[p].res.status # 0

\* The same for the IP update alone, whose statements are in a try block.
IpFailureIsAnswered ==
  \A p \in Procs :
    req[p].kind = "ip" /\ req[p].pc \in {"done", "crashed"} => req[p].res.status # 0

DynamicSent(S) == {w \in S : w.table = "dynamic_urls"}

\* The user a tier authorized the request for.
ResolvingUser(r) ==
  IF r.method_name = "USER" THEN r.session_user
  ELSE IF r.method_name = "SESSION"
       THEN (CHOOSE s \in sessions : s.id = r.cookie).user_id
  ELSE (CHOOSE x \in r.ipSession : TRUE).id

\* C18 as stated: a dynamic_urls row is sent for exactly the resolutions
\* that succeed: one, with the transformed destination and the resolving
\* user's id, by the step that delivers a redirect or a rendered payload;
\* none by a step that answers 401 or not-found or that fails on a
\* malformed payload; and the table grows by rows so sent only.
C18_DynamicUrlForExactlyTheSuccesses ==
  [][/\ \A p \in Procs :
          req[p].kind = "get_l" /\ req'[p] # req[p] /\ req'[p].n = req[p].n
          => IF /\ req'[p].pc = "done" /\ req'[p].shortlink # <<>>
                /\ req'[p].res.status \in {200, 302}
             THEN DynamicSent(pending') \ DynamicSent(pending) =
                    {[n |-> req[p].n, table |-> "dynamic_urls",
                      row |-> [user_id |-> ResolvingUser(req'[p]),
                               full_url |-> req'[p].res.location]]}
             ELSE DynamicSent(pending') = DynamicSent(pending)
     /\ dynamic_urls' # dynamic_urls
        => \E w \in DynamicSent(pending) :
             /\ pending' = pending \ {w}
             /\ dynamic_urls' = Append(dynamic_urls, w.row)]_vars

\* The same without the POST links whose payload does not parse.
DynamicUrlForSuccessesOfWellFormedRows ==
  [][\A p \in Procs :
       /\ req[p].kind = "get_l" /\ req'[p] # req[p] /\ req'[p].n = req[p].n
       /\ req'[p].shortlink # <<>> => JsonParses(req'[p].shortlink[1].data)
       => IF /\ req'[p].pc = "done" /\ req'[p].shortlink # <<>>
             /\ req'[p].res.status \in {200, 302}
          THEN DynamicSent(pending') \ DynamicSent(pending) =
                 {[n |-> req[p].n, table |-> "dynamic_urls",
                   row |-> [user_id |-> ResolvingUser(req'[p]),
                            full_url |-> req'[p].res.location]]}
          ELSE DynamicSent(pending') = DynamicSent(pending)]_vars

OutboundSent(S) == {w \in S : w.table = "outbound"}

\* The outbound row of an authorized request, from what the request
\* carries and what the tables hold: the first tier that matches.
ExpectedOutboundRow(r) ==
  LET rich == variant = "rich"
      tier1 == r.session_user # 0 /\ (rich => Member(r.session_user))
      tier2 == \E s \in sessions : s.id = r.cookie /\ (rich => Member(s.user_id))
  IN [ip_address |-> r.ip, code |-> r.code,
      auth_method |-> IF tier1 THEN "USER" ELSE IF tier2 THEN "SESSION" ELSE "IP",
      auth_value |-> IF tier1 THEN r.session_user
                     ELSE IF tier2 THEN r.cookie ELSE r.ip]

\* C19: the step that authorizes a GET /l/:code request sends one outbound
\* row (richer variant) or leads to the step that inserts it (simplified
\* variant), also when the code has no shortlink row; the row names the
\* tier that authorized the request and that tier's value; no other step
\* of a request, the 401 answer included, sends or inserts an outbound
\* row; and the table grows by such rows only.
C19_OutboundRowOfAuthorizingTier ==
  [][/\ \A p \in Procs :
          req'[p].kind = "get_l" /\ req'[p] # req[p]
          => LET within == {"get_outbound", "get_shortlink"}
                 authorizes == /\ req'[p].pc \in within
                               /\ req[p].n # req'[p].n \/ req[p].pc \notin within
             IN IF authorizes
                THEN IF variant = "rich"
                     THEN OutboundSent(pending') \ OutboundSent(pending) =
                            {[n |-> req'[p].n, table |-> "outbound",
                              row |-> ExpectedOutboundRow(req'[p])]}
                     ELSE /\ req'[p].pc = "get_outbound"
                          /\ pending' = pending /\ outbound' = outbound
                ELSE /\ OutboundSent(pending') = OutboundSent(pending)
                     /\ IF req[p].pc = "get_outbound"
                        THEN outbound' = Append(outbound, ExpectedOutboundRow(req[p]))
                        ELSE outbound' = outbound
     /\ outbound' # outbound
        => \/ \E w \in OutboundSent(pending) :
                /\ pending' = pending \ {w}
                /\ outbound' = Append(outbound, w.row)
           \/ \E p \in Procs : req[p].pc = "get_outbound"]_vars

\* A request of a non-member's browser session was authorized by the
\* grant of its address, answered with the not-found view, and its
\* outbound row names the IP tier.
C19_Witness ==
  \E p \in Procs :
    /\ variant = "rich"
    /\ req[p].kind = "get_l" /\ req[p].pc = "done"
    /\ req[p].session_user = 2 /\ req[p].res.view = "404.handlebars"
    /\ \E i \in 1..Len(outbound) :
         outbound[i] = [ip_address |-> req[p].ip, code |-> req[p].code,
                        auth_method |-> "IP", auth_value |-> req[p].ip]

\* C20 as stated: when every IP update of the user has completed without
\* error, however they interleaved, the user holds at most two grants and
\* they are the addresses that one of the updates supplied.
C20_ConcurrentIpUpdatesLeaveOneSet ==
  /\ \A p \in Procs : req[p].pc \in {"idle", "done"}
  /\ \E p \in Procs : IpUpdated(p)
  => /\ Cardinality(IpsOf(1)) <= 2
     /\ \E p \in Procs :
          /\ IpUpdated(p)
          /\ {r.ip_address : r \in IpsOf(1)} =
               {Supplied(p)[i] : i \in 1..Len(Supplied(p))}

\* The addresses of the user's grants, in the order of their ids.
GrantList(userId) ==
  LET mine == IpsOf(userId)
      rank(r) == Cardinality({o \in mine : o.id <= r.id})
  IN [i \in 1..Cardinality(mine) |-> (CHOOSE r \in mine : rank(r) = i).ip_address]

IpErrorView(res) ==
  res = [NoResponse EXCEPT !.status = 200, !.view = "dashboard.handlebars ip_error"]

\* The step of request p is the catch of a failed statement at one of pcs.
IpFailedAt(p, pcs) ==
  /\ req[p].kind = "ip" /\ req[p].pc \in pcs
  /\ req'[p].n = req[p].n /\ req'[p].pc = "done"

\* The lookup of GET /l/:code sees the grants as they are at that moment.
LookupSeesGrantsOfTheMoment ==
  \A q \in Procs :
    req[q].kind = "get_l" /\ req[q].pc = "get_ip" /\ req'[q].pc # "get_ip"
    => (req'[q].res.status = 401 <=> ~\E r \in ips : r.ip_address = req[q].ip)

\* C21 as stated: when an insert of the IP update fails after the delete,
\* nothing is restored, the dashboard error view is returned, and the user
\* is left with zero or only part of the requested grants (fewer rows than
\* addresses requested); and a GET /l/:code whose lookup runs while the
\* grant of its address is deleted and not yet inserted again is answered
\* Unauthorized.
C21_FailedInsertLeavesPartOfGrants ==
  [][/\ \A p \in Procs :
          IpFailedAt(p, {"ip_insert_1", "ip_insert_2", "ip_saved_1", "ip_saved_2"})
          => /\ ips' = ips /\ saved_ips' = saved_ips
             /\ IpErrorView(req'[p].res)
             /\ LET left == GrantList(req[p].user)
                IN /\ Len(left) < Len(Supplied(p))
                   /\ left = SubSeq(Supplied(p), 1, Len(left))
     /\ LookupSeesGrantsOfTheMoment]_vars

\* C21 amended: when an insert of the IP update fails after the delete,
\* nothing is restored and the dashboard error view is returned; the user
\* is left with the first addresses requested, in order: zero or only part
\* of them when the insert into ips fails, and the addresses up to and
\* including the one just inserted, which can be all of them, when the
\* insert into saved_ips fails (richer variant).  A GET /l/:code whose
\* lookup runs while the grant of its address is deleted and not yet
\* inserted again is answered Unauthorized.
C21_FailedInsertLeavesPrefixOfGrants ==
  [][/\ \A p \in Procs :
          /\ IpFailedAt(p, {"ip_insert_1", "ip_insert_2", "ip_saved_1", "ip_saved_2"})
             => /\ ips' = ips /\ saved_ips' = saved_ips
                /\ IpErrorView(req'[p].res)
                /\ GrantList(req[p].user) =
                     SubSeq(Supplied(p), 1, Len(GrantList(req[p].user)))
          /\ IpFailedAt(p, {"ip_insert_1", "ip_insert_2"})
             => Len(GrantList(req[p].user)) < Len(Supplied(p))
          /\ IpFailedAt(p, {"ip_saved_1"})
             => GrantList(req[p].user) = <<req[p].body.ip_1>>
          /\ IpFailedAt(p, {"ip_saved_2"})
             => GrantList(req[p].user) = Supplied(p)
     /\ LookupSeesGrantsOfTheMoment]_vars

\* The update asked for 101 and 102 and failed at the insert of 102: the
\* error view was returned and the user holds 101 alone.  The request from
\* 101 that started after the update was answered Unauthorized although
\* 101 was granted before the delete and is granted now.
C21_Witness ==
  /\ req[1].kind = "ip" /\ req[1].pc = "done" /\ IpErrorView(req[1].res)
  /\ req[1].body.ip_1 = 101 /\ req[1].body.ip_2 = 102
  /\ GrantList(1) = <<101>>
  /\ req[2].kind = "get_l" /\ req[2].pc = "done" /\ req[2].n > req[1].n
  /\ req[2].ip = 101 /\ req[2].res.status = 401

\* The step is the whole handler of a POST /l request in slot p.
Created(p) == req'[p].kind = "post_l" /\ req'[p].n # req[p].n

NoArray(value) == value.type # "undefined" /\ ~value.array

\* The first half of C22: a creation request answered with 400 sends no
\* insert and changes no table, and the shortlinks table grows only by the
\* rows of requests that were answered 200.
RejectedCreationInsertsNothing ==
  [][/\ \A p \in Procs :
          Created(p) /\ req'[p].res.status # 200
          => pending' = pending /\ shortlinks' = shortlinks
     /\ shortlinks' # shortlinks
        => \E w \in pending :
             /\ w.table = "shortlinks"
             /\ pending' = pending \ {w}
             /\ shortlinks' = Append(shortlinks,
                                     [w.row EXCEPT !.id = Len(shortlinks) + 1,
                                                   !.request = w.n])]_vars

\* C22 as stated: a POST /l request answered with 400 inserts no shortlink
\* row, the shortlinks table is unchanged by every rejected creation
\* request, and every linkbust value that is not an array is answered with
\* 400 (no handler ends in an unhandled error).
C22_RejectedCreationInsertsNothingAndAnswers400 ==
  [][\A p \in Procs :
       Created(p)
       => /\ req'[p].res.status # 200
             => pending' = pending /\ shortlinks' = shortlinks
          /\ NoArray(req'[p].body.linkbust)
             => req'[p].pc = "done" /\ req'[p].res.status = 400]_vars

\* The session with this id was created and its row is in sessions no more.
Evicted(id) ==
  /\ \E r \in saved_sessions : r.id = id
  /\ ~\E r \in sessions : r.id = id

\* A GET /l/:code request that presents a cookie and no browser session.
CookieOnly(p) ==
  req[p].kind = "get_l" /\ req[p].session_user = 0 /\ req[p].cookie # 0

\* C23: a session that was evicted stays evicted and in saved_sessions;
\* the cookie lookup of a request that presents only an evicted session's
\* id authorizes nothing, clears the cookie and passes on to the IP tier;
\* the IP tier answers it Unauthorized when its address has no grant, and
\* when it authorizes, the method is IP, never SESSION.
C23_EvictedSessionNeverAuthorizes ==
  [][/\ \A id \in SessionIds : Evicted(id) => Evicted(id)'
     /\ \A p \in Procs :
          /\ CookieOnly(p) /\ Evicted(req[p].cookie)
          /\ req'[p].n = req[p].n /\ req'[p] # req[p]
          => IF req[p].pc = "get_cookie"
             THEN /\ req'[p].pc = "get_ip"
                  /\ req'[p].res.clear_cookie
                  /\ req'[p].method_name = ""
                  /\ pending' = pending /\ outbound' = outbound
             ELSE IF req[p].pc = "get_ip"
             THEN /\ req'[p].res.clear_cookie
                  /\ req'[p].method_name # "SESSION"
                  /\ (~\E g \in ips : g.ip_address = req[p].ip)
                     => /\ req'[p].pc = "done"
                        /\ req'[p].res.status = 401
                        /\ req'[p].res.view = "unauthorized.handlebars"
             ELSE req'[p].method_name = req[p].method_name]_vars

\* A login evicted the session whose id the request presents; the request
\* came from an address without grant, had its cookie cleared and was
\* answered Unauthorized, while the id is still in saved_sessions.
C23_Witness ==
  \E p, q \in Procs :
    /\ CookieOnly(p) /\ req[p].pc = "done" /\ Evicted(req[p].cookie)
    /\ req[p].lookups = <<"SESSION", "IP">>
    /\ req[p].res.clear_cookie /\ req[p].res.status = 401
    /\ req[q].kind = "login" /\ req[q].n < req[p].n
    /\ Len(req[q].currentSessions) = MaxSessions
    /\ req[q].currentSessions[1].id = req[p].cookie

\* later is earlier with at most one row appended.
AppendedTo(earlier, later) ==
  \/ later = earlier
  \/ Len(later) = Len(earlier) + 1 /\ SubSeq(later, 1, Len(earlier)) = earlier

\* C24: no step of GET /l/:code, and no insert it sent, changes sessions,
\* saved_sessions, ips, saved_ips or shortlinks (users is written by no
\* endpoint at all); the inserts it sends go to outbound and dynamic_urls,
\* which grow by appended rows only; and the only cookie header it sends
\* is the clearing of sessionId.
C24_ResolutionWritesAuditLogsOnly ==
  [][/\ UNCHANGED <<sessions, saved_sessions, ips, saved_ips, shortlinks>>
     /\ AppendedTo(outbound, outbound')
     /\ AppendedTo(dynamic_urls, dynamic_urls')
     /\ \A w \in pending' \ pending : w.table \in {"outbound", "dynamic_urls"}
     /\ \A p \in Procs : req'[p].kind = "get_l" => req'[p].res.set_cookie = 0]_vars

\* One request was authorized and resolved and left a row in outbound and
\* (richer variant) one in dynamic_urls, the next had its cookie cleared
\* and was answered Unauthorized, and the trust and link tables are as
\* they were before the two.
C24_Witness ==
  /\ Len(outbound) = 1
  /\ variant = "rich" => Len(dynamic_urls) = 1
  /\ \E p \in Procs :
       /\ req[p].kind = "get_l" /\ req[p].pc = "done" /\ req[p].n = 2
       /\ req[p].res.status = 401 /\ req[p].res.clear_cookie
  /\ sessions = SeedSessions(<<14>>, 1)
  /\ saved_sessions = {[id |-> r.id, user_id |-> r.user_id] : r \in sessions}
  /\ ips = {[id |-> 1, user_id |-> 1, ip_address |-> 101]}
  /\ saved_ips = <<>>
  /\ <<shortlinks>> \in {<<s>> : s \in DynamicLinkSeeds}
====
